---- MODULE Spec2Model ----
(***************************************************************************)
(* Model of src/snapshot/embedded/embedded-data.cc: the embedded blob      *)
(* builder (EmbeddedData::FromIsolate), the relocation fix-up              *)
(* (FinalizeEmbeddedCodeTargets), the address resolver                     *)
(* (InstructionStream::TryLookupCode) and the off-heap instruction stream  *)
(* lifecycle (Create/FreeOffHeapInstructionStream).                        *)
(*                                                                         *)
(* Storage units.  The code region is modelled byte by byte.  The metadata *)
(* region is modelled word by word: the two hash fields are one machine    *)
(* word each and a struct Metadata {u32 offset; u32 length} is one word.   *)
(* A relocation target field occupies one byte of the code region.         *)
(***************************************************************************)
EXTENDS Integers, Sequences, FiniteSets, TLC

\* ------------------------------------------------------------------ bounds
\* Builtins::builtin_count of the general input families.
NumBuiltins == 2
\* Largest raw_instruction_size of a builtin in the layout family.
MaxLen == 2
\* kCodeAlignment ranges over 2^1 .. 2^MaxAlignBits in the layout family.
MaxAlignBits == 2
\* RawCodeOffset() (the reserved header) ranges over 0 .. MaxHeader.
MaxHeader == 1
\* The process's address space has MaxPages pages.
MaxPages == 6

VARIABLES
  isolate,             \* [builtins: the on-heap Code objects, arch: the target]
  config,              \* [kCodeAlignment, RawCodeOffset]: build-time constants
  pc,                  \* position of the running operation; "fatal" is the
                       \* failed CHECK of the safety gate, "fatal_code_target"
                       \* a failed CHECK of the relocation fix-up
  i,                   \* loop index of the running FromIsolate loop
  saw_unsafe_builtin,  \* FromIsolate's local flag
  reported,            \* lines printed to stderr: <<builtin, reason>>
  metadata,            \* FromIsolate's std::vector<struct Metadata>
  raw_code_size,       \* FromIsolate's running total
  blob_code,           \* the code buffer, byte offset -> byte
  blob_metadata,       \* the metadata buffer, word offset -> word
  buffers,             \* the two build-time buffers: "none", "live", "disposed"
  lookup,              \* the last TryLookupCode call: [address, result]
  prot,                \* the process's pages: page -> protection, "none" if unmapped
  mem,                 \* the contents of the pages: address -> byte or word
  regions,             \* the page allocator's live allocations: [address, size]
  instances,           \* what CreateOffHeapInstructionStream has returned and
                       \* FreeOffHeapInstructionStream has not yet been given
  allocated_code_bytes,      \* CreateOffHeapInstructionStream's locals
  allocated_metadata_bytes,
  freeing,             \* the arguments of the running FreeOffHeapInstructionStream
  free_log             \* every FreePages so far: [released, allocated] sizes

vars == <<isolate, config, pc, i, saw_unsafe_builtin, reported, metadata,
          raw_code_size, blob_code, blob_metadata, buffers, lookup, prot, mem,
          regions, instances, allocated_code_bytes, allocated_metadata_bytes,
          freeing, free_log>>

buildVars == <<i, saw_unsafe_builtin, reported, metadata, raw_code_size,
               blob_code, blob_metadata, buffers>>

lifeVars == <<prot, mem, regions, instances, allocated_code_bytes,
              allocated_metadata_bytes, freeing, free_log>>

\* ----------------------------------------------------------- the isolate
builtin_count == Len(isolate.builtins)
builtin(n) == isolate.builtins[n + 1]

kCodeAlignment == config.kCodeAlignment
RawCodeOffset == config.RawCodeOffset

Kinds == {"CPP", "TFC", "TFH", "TFJ", "TFS", "BCH", "ASM"}
kOffHeapTrampolineRegister == "kOffHeapTrampolineRegister"

RelocModes == {"CODE_TARGET", "RELATIVE_CODE_TARGET"}

\* The architectures of the #if at FinalizeEmbeddedCodeTargets.
DirectCallArchs == {"X64", "ARM64", "ARM", "MIPS", "IA32", "S390"}

\* ------------------------------------------------------------- arithmetic
\* Sizes and offsets are uint32_t in the source.  The blobs of this model are
\* a few dozen bytes, far from 2^32, so the arithmetic is left unbounded.
RoundUp(x, m) == ((x + m - 1) \div m) * m

PadAndAlign(length) == RoundUp(length, kCodeAlignment)

\* ------------------------------------------------------- metadata layout
EmbeddedBlobHashOffset == 0
EmbeddedBlobHashSize == 1
IsolateHashOffset == EmbeddedBlobHashOffset + EmbeddedBlobHashSize
IsolateHashSize == 1
MetadataTableOffset == IsolateHashOffset + IsolateHashSize
MetadataTableSize == builtin_count

\* --------------------------------------------------------------- bytes
ZapByte == [tag |-> "zap", a |-> 0, b |-> 0]
UninitByte == [tag |-> "uninit", a |-> 0, b |-> 0]
InsnByte(n, k) == [tag |-> "insn", a |-> n, b |-> k]
TargetField(v) == [tag |-> "target", a |-> v, b |-> 0]

UninitWord == [tag |-> "uninit", val |-> <<>>]
HashWord(h) == [tag |-> "hash", val |-> h]
EntryWord(m) == [tag |-> "entry",
                 val |-> <<m.instructions_offset, m.instructions_length>>]

\* ------------------------------------------------------------------ pages
\* page_allocator->AllocatePageSize(), in storage units.
AllocatePageSize == 4

\* The pages of the process: page p holds the addresses
\* p * AllocatePageSize .. (p + 1) * AllocatePageSize - 1.  Page 0 is never
\* mapped: its address is the null pointer.
Pages == 1..MaxPages
Addresses == AllocatePageSize..((MaxPages + 1) * AllocatePageSize - 1)
ZeroByte == [tag |-> "zero", a |-> 0, b |-> 0]
NoInstance == [code |-> 0, code_size |-> 0, metadata |-> 0, metadata_size |-> 0]

\* The pages that the bytes [address, address + size) lie in.
PagesOf(address, size) ==
  { p \in Pages : /\ p * AllocatePageSize < address + size
                  /\ (p + 1) * AllocatePageSize > address }

\* Code::raw_instruction_start() of builtin n, and of the one Code object on
\* the heap that is not a builtin (index builtin_count).
raw_instruction_start(n) == 1000 + 100 * n
NonBuiltinCode == builtin_count

\* The address of the blob's code buffer (EmbeddedData::code_).
code_ == 64

\* Code::GetCodeFromTargetAddress: the Code object whose instructions start
\* at the address; -1 when there is none (an address inside the blob).
GetCodeFromTargetAddress(address) ==
  IF \E c \in 0..builtin_count : raw_instruction_start(c) = address
  THEN CHOOSE c \in 0..builtin_count : raw_instruction_start(c) = address
  ELSE -1

\* Builtins::IsIsolateIndependentBuiltin(code): code.is_builtin(), given
\* Builtins::kAllBuiltinsAreIsolateIndependent.
IsIsolateIndependentBuiltin(c) == c \in 0..(builtin_count - 1)

\* A relocation record's target field: CODE_TARGET holds the absolute
\* address, RELATIVE_CODE_TARGET the distance from the end of the field.
EncodeTarget(rmode, target, field_pc) ==
  IF rmode = "CODE_TARGET" THEN target ELSE target - (field_pc + 1)

DecodeTarget(rmode, value, field_pc) ==
  IF rmode = "CODE_TARGET" THEN value ELSE value + (field_pc + 1)

\* Byte k of builtin n's on-heap instructions.  The relocation records of a
\* builtin sit in its first bytes, record r at byte r - 1.
OnHeapByte(n, k) ==
  LET code == builtin(n)
  IN IF k < Len(code.relocs)
     THEN TargetField(EncodeTarget(code.relocs[k + 1].rmode,
                                   code.relocs[k + 1].target,
                                   raw_instruction_start(n) + k))
     ELSE InsnByte(n, k)

\* ------------------------------------------------------ the safety checks
\* Fault model: the loop over the register parameters is missing.
AliasesContextRegisterOnly(code) ==
  IF code.kind \in {"BCH", "ASM"}
  THEN FALSE
  ELSE code.descriptor.context = kOffHeapTrampolineRegister

BuiltinAliasesOffHeapTrampolineRegister(code) ==
  IF code.kind \in {"BCH", "ASM"}
  THEN FALSE
  ELSE \/ code.descriptor.context = kOffHeapTrampolineRegister
       \/ \E p \in 1..Len(code.descriptor.params) :
            code.descriptor.params[p] = kOffHeapTrampolineRegister

\* ------------------------------------------------- EmbeddedData accessors
blob_code_size == RawCodeOffset + raw_code_size
blob_metadata_size == MetadataTableOffset + MetadataTableSize

\* EmbeddedData::Metadata(): the table as stored in the metadata buffer.
Metadata(blob_md, n) == blob_md[MetadataTableOffset + n].val

InstructionStartOfBuiltinIn(blob_md, n) ==
  code_ + RawCodeOffset + Metadata(blob_md, n)[1]

InstructionSizeOfBuiltinIn(blob_md, n) == Metadata(blob_md, n)[2]

InstructionStartOfBuiltin(n) == InstructionStartOfBuiltinIn(blob_metadata, n)
InstructionSizeOfBuiltin(n) == InstructionSizeOfBuiltinIn(blob_metadata, n)
PaddedInstructionSizeOfBuiltin(n) == PadAndAlign(InstructionSizeOfBuiltin(n))

\* Checksum(payload1, payload2) of snapshot-utils: a function of the two
\* payloads, kept symbolic.
Checksum(payload1, payload2) == <<payload1, payload2>>

AsSeq(buf, from, size) == [k \in 1..(size - from) |-> buf[from + k - 1]]

\* Fault model: the payload starts at the hash field itself.
CreateEmbeddedBlobHashWithHashField(blob_md, blob_cd) ==
  Checksum(AsSeq(blob_md, 0, blob_metadata_size),
           AsSeq(blob_cd, 0, blob_code_size))

CreateEmbeddedBlobHash(blob_md, blob_cd) ==
  Checksum(AsSeq(blob_md, EmbeddedBlobHashSize, blob_metadata_size),
           AsSeq(blob_cd, 0, blob_code_size))

\* ----------------------------------------------------------- FromIsolate
\* Fault model: the offset is taken after the running total has advanced.
LayoutEntryAfterAdvance(raw, length) ==
  [instructions_offset |-> raw + RoundUp(length, kCodeAlignment),
   instructions_length |-> length]

\* metadata[i].instructions_offset = raw_code_size;
\* metadata[i].instructions_length = length;
LayoutEntry(raw, length) ==
  [instructions_offset |-> raw, instructions_length |-> length]

\* Fault model: the running total advances by the unpadded length.
NextRawCodeSizeUnpadded(raw, length) == raw + length

\* raw_code_size += PadAndAlign(length);
NextRawCodeSize(raw, length) == raw + PadAndAlign(length)

\* One iteration of the first loop: the two sanity checks and the layout.
BuildLayout ==
  /\ pc = "layout"
  /\ i < builtin_count
  /\ LET code == builtin(i)
         unsafe1 == ~code.isolate_independent
         unsafe2 == BuiltinAliasesOffHeapTrampolineRegister(code)
         length == code.raw_instruction_size
     IN /\ saw_unsafe_builtin' = (saw_unsafe_builtin \/ unsafe1 \/ unsafe2)
        /\ reported' = reported
             \cup (IF unsafe1 THEN {<<i, "is not isolate-independent">>} ELSE {})
             \cup (IF unsafe2
                   THEN {<<i, "aliases the off-heap trampoline register">>}
                   ELSE {})
        /\ metadata' = [metadata EXCEPT ![i + 1] =
                          LayoutEntry(raw_code_size, length)]
        /\ raw_code_size' = NextRawCodeSize(raw_code_size, length)
  /\ i' = i + 1
  /\ pc' = IF i + 1 = builtin_count THEN "check" ELSE "layout"
  /\ UNCHANGED <<lifeVars, buffers, isolate, config, blob_code, blob_metadata, lookup>>

\* CHECK_WITH_MSG(!saw_unsafe_builtin, ...) fails: the process aborts.
BuildCheckFail ==
  /\ pc = "check"
  /\ saw_unsafe_builtin
  /\ pc' = "fatal"
  /\ UNCHANGED <<lifeVars, isolate, config, lookup, buildVars>>

\* The CHECK passes; both buffers are allocated, their contents undefined.
BuildAllocate ==
  /\ pc = "check"
  /\ ~saw_unsafe_builtin
  /\ blob_code' = [k \in 0..(blob_code_size - 1) |-> UninitByte]
  /\ blob_metadata' = [k \in 0..(blob_metadata_size - 1) |-> UninitWord]
  /\ buffers' = "live"
  /\ pc' = "zap"
  /\ UNCHANGED <<lifeVars, isolate, config, lookup, i, saw_unsafe_builtin, reported,
                 metadata, raw_code_size>>

\* Fault model: the zap stops short of the end of the buffer by the size of
\* the reserved header.
ZapCodeShort(buf, size) ==
  [k \in DOMAIN buf |-> IF k < size - RawCodeOffset THEN ZapByte ELSE buf[k]]

\* ZapCode(blob_code, blob_code_size).
ZapCode(buf, size) == [k \in DOMAIN buf |-> IF k < size THEN ZapByte ELSE buf[k]]

BuildZap ==
  /\ pc = "zap"
  /\ blob_code' = ZapCode(blob_code, blob_code_size)
  /\ pc' = "isolate_hash"
  /\ UNCHANGED <<lifeVars, buffers, isolate, config, lookup, i, saw_unsafe_builtin, reported,
                 metadata, raw_code_size, blob_metadata>>

\* isolate->HashIsolateForEmbeddedBlob(), stored at IsolateHashOffset().
HashIsolateForEmbeddedBlob == <<"isolate">>

BuildIsolateHash ==
  /\ pc = "isolate_hash"
  /\ blob_metadata' = [blob_metadata EXCEPT
                         ![IsolateHashOffset] = HashWord(HashIsolateForEmbeddedBlob)]
  /\ pc' = "table"
  /\ UNCHANGED <<lifeVars, buffers, isolate, config, lookup, i, saw_unsafe_builtin, reported,
                 metadata, raw_code_size, blob_code>>

\* memcpy of the metadata vector to MetadataTableOffset().
WriteTable(blob_md, table) ==
  [k \in DOMAIN blob_md |->
     IF k >= MetadataTableOffset /\ k < MetadataTableOffset + MetadataTableSize
     THEN EntryWord(table[k - MetadataTableOffset + 1])
     ELSE blob_md[k]]

BuildTable ==
  /\ pc = "table"
  /\ blob_metadata' = WriteTable(blob_metadata, metadata)
  /\ i' = 0
  /\ pc' = "copy"
  /\ UNCHANGED <<lifeVars, buffers, isolate, config, lookup, saw_unsafe_builtin, reported,
                 metadata, raw_code_size, blob_code>>

\* memcpy(dst, code.raw_instruction_start(), code.raw_instruction_size()) with
\* dst = raw_code_start + metadata[n].instructions_offset.  A byte past the
\* end of the buffer is a heap overflow; the model records it as a write
\* outside the buffer's domain.
CopyBuiltin(buf, n) ==
  LET dst == RawCodeOffset + metadata[n + 1].instructions_offset
      size == builtin(n).raw_instruction_size
      touched == dst..(dst + size - 1)
  IN [k \in (DOMAIN buf) \cup touched |->
        IF k \in touched THEN OnHeapByte(n, k - dst) ELSE buf[k]]

BuildCopy ==
  /\ pc = "copy"
  /\ i < builtin_count
  /\ blob_code' = CopyBuiltin(blob_code, i)
  /\ i' = IF i + 1 = builtin_count THEN 0 ELSE i + 1
  /\ pc' = IF i + 1 = builtin_count THEN "finalize" ELSE "copy"
  /\ UNCHANGED <<lifeVars, buffers, isolate, config, lookup, saw_unsafe_builtin, reported,
                 metadata, raw_code_size, blob_metadata>>

\* ------------------------------------------ FinalizeEmbeddedCodeTargets
\* Fault model: the target is read from the blob copy's field instead of the
\* on-heap record's.
TargetAddressFromBlobCopy(n, r) ==
  DecodeTarget(builtin(n).relocs[r].rmode,
               blob_code[InstructionStartOfBuiltin(n) + r - 1 - code_].a,
               raw_instruction_start(n) + r - 1)

\* on_heap_it.rinfo()->target_address() of record r of builtin n.
OnHeapTargetAddress(n, r) ==
  DecodeTarget(builtin(n).relocs[r].rmode, OnHeapByte(n, r - 1).a,
               raw_instruction_start(n) + r - 1)

\* Fault model: the field is encoded at the on-heap record's address.
SetTargetAddressAtOnHeapPc(buf, n, r, target) ==
  LET field_pc == InstructionStartOfBuiltin(n) + r - 1
  IN [buf EXCEPT ![field_pc - code_] =
        TargetField(EncodeTarget(builtin(n).relocs[r].rmode, target,
                                 raw_instruction_start(n) + r - 1))]

\* off_heap_it.rinfo()->set_target_address(target): the blob copy's field,
\* encoded at its own address inside the blob.
SetTargetAddress(buf, n, r, target) ==
  LET field_pc == InstructionStartOfBuiltin(n) + r - 1
  IN [buf EXCEPT ![field_pc - code_] =
        TargetField(EncodeTarget(builtin(n).relocs[r].rmode, target, field_pc))]

\* The while loop over builtin n's records, from record r on: the buffer it
\* leaves and whether every CHECK passed.
RECURSIVE FinalizeRecords(_, _, _)
FinalizeRecords(buf, n, r) ==
  IF r > Len(builtin(n).relocs)
  THEN [buf |-> buf, ok |-> TRUE]
  ELSE LET target == GetCodeFromTargetAddress(OnHeapTargetAddress(n, r))
       IN IF ~IsIsolateIndependentBuiltin(target)
          THEN [buf |-> buf, ok |-> FALSE]
          ELSE FinalizeRecords(
                 SetTargetAddress(buf, n, r, InstructionStartOfBuiltin(target)),
                 n, r + 1)

\* One iteration of the loop over the builtins, on either side of the #if.
FinalizeBuiltin(buf, n) ==
  IF isolate.arch \in DirectCallArchs
  THEN FinalizeRecords(buf, n, 1)
  ELSE [buf |-> buf, ok |-> Len(builtin(n).relocs) = 0]

BuildFinalize ==
  /\ pc = "finalize"
  /\ i < builtin_count
  /\ LET res == FinalizeBuiltin(blob_code, i)
     IN /\ blob_code' = res.buf
        /\ pc' = IF ~res.ok THEN "fatal_code_target"
                 ELSE IF i + 1 = builtin_count THEN "hash" ELSE "finalize"
  /\ i' = i + 1
  /\ UNCHANGED <<lifeVars, buffers, isolate, config, lookup, saw_unsafe_builtin, reported,
                 metadata, raw_code_size, blob_metadata>>

\* Hash the blob and store the result.
BuildHash ==
  /\ pc = "hash"
  /\ blob_metadata' = [blob_metadata EXCEPT ![EmbeddedBlobHashOffset] =
         HashWord(CreateEmbeddedBlobHash(blob_metadata, blob_code))]
  /\ pc' = "done"
  /\ UNCHANGED <<lifeVars, buffers, isolate, config, lookup, i, saw_unsafe_builtin, reported,
                 metadata, raw_code_size, blob_code>>

\* ---------------------------------------------------------- TryLookupCode
PcIsOffHeap(address) == code_ <= address /\ address < code_ + blob_code_size

NullCode == [kind |-> "null", index |-> 0]
Unreachable == [kind |-> "UNREACHABLE", index |-> 0]
BuiltinCode(n) == [kind |-> "builtin", index |-> n]

\* Fault model: the end of a builtin's range is taken as inclusive.
RECURSIVE BinarySearchInclusiveEnd(_, _, _)
BinarySearchInclusiveEnd(address, l, r) ==
  IF l < r
  THEN LET mid == (l + r) \div 2
           start == InstructionStartOfBuiltin(mid)
           end == start + PaddedInstructionSizeOfBuiltin(mid)
       IN IF address < start THEN BinarySearchInclusiveEnd(address, l, mid)
          ELSE IF address > end THEN BinarySearchInclusiveEnd(address, mid + 1, r)
          ELSE BuiltinCode(mid)
  ELSE Unreachable

RECURSIVE BinarySearch(_, _, _)
BinarySearch(address, l, r) ==
  IF l < r
  THEN LET mid == (l + r) \div 2
           start == InstructionStartOfBuiltin(mid)
           end == start + PaddedInstructionSizeOfBuiltin(mid)
       IN IF address < start THEN BinarySearch(address, l, mid)
          ELSE IF address >= end THEN BinarySearch(address, mid + 1, r)
          ELSE BuiltinCode(mid)
  ELSE Unreachable

TryLookupCodeResult(address) ==
  IF ~PcIsOffHeap(address) THEN NullCode
  ELSE IF address < InstructionStartOfBuiltin(0) THEN NullCode
  ELSE BinarySearch(address, 0, builtin_count)

\* The addresses a lookup is tried with: the blob and one byte either side.
LookupAddresses == (code_ - 1)..(code_ + blob_code_size)

TryLookupCode ==
  /\ pc = "done"
  /\ \E address \in LookupAddresses :
       lookup' = [address |-> address, result |-> TryLookupCodeResult(address)]
  /\ UNCHANGED <<lifeVars, isolate, config, pc, buildVars>>

\* ------------------------------------------------------------------ inputs
CleanDescriptor == [context |-> "kContextRegister", params |-> <<"r0", "r1">>]
Descriptors ==
  { CleanDescriptor,
    [context |-> kOffHeapTrampolineRegister, params |-> <<"r0", "r1">>],
    [context |-> "kContextRegister",
     params |-> <<"r0", kOffHeapTrampolineRegister>>] }

PlainBuiltin(length) ==
  [raw_instruction_size |-> length, kind |-> "TFJ", isolate_independent |-> TRUE,
   descriptor |-> CleanDescriptor, relocs |-> <<>>]

\* Layout family: safe builtins of every length, every alignment and header.
LayoutInputs ==
  { [isolate |-> [builtins |-> [n \in 1..NumBuiltins |-> PlainBuiltin(lens[n])],
                  arch |-> "X64"],
     config |-> [kCodeAlignment |-> 2 ^ bits, RawCodeOffset |-> h]] :
    lens \in [1..NumBuiltins -> 0..MaxLen], bits \in 1..MaxAlignBits,
    h \in 0..MaxHeader }

\* The worked example: lengths 10, 37 and 4 with alignment 16.
ScenarioInputs ==
  { [isolate |-> [builtins |-> <<PlainBuiltin(10), PlainBuiltin(37),
                                 PlainBuiltin(4)>>,
                  arch |-> "X64"],
     config |-> [kCodeAlignment |-> 16, RawCodeOffset |-> 0]] }

\* Safety family: one-byte builtins of every kind, context dependence and
\* calling convention.
GateBuiltins ==
  { [raw_instruction_size |-> 1, kind |-> k, isolate_independent |-> ind,
     descriptor |-> d, relocs |-> <<>>] :
    k \in Kinds, ind \in BOOLEAN, d \in Descriptors }

\* At most two builtins of a gate input differ from a plain one.
GateInputs ==
  { [isolate |->
       [builtins |-> [n \in 1..NumBuiltins |->
                        IF n = p THEN a ELSE IF n = q THEN b ELSE PlainBuiltin(1)],
        arch |-> "X64"],
     config |-> [kCodeAlignment |-> 2, RawCodeOffset |-> 0]] :
    p \in 1..NumBuiltins, q \in 1..NumBuiltins,
    a \in GateBuiltins, b \in GateBuiltins }

\* Relocation family: builtins with code-target records, on architectures of
\* both sides of the #if.  A record targets a builtin or the one Code object
\* that is not a builtin.
RelocRecords(count) ==
  { [rmode |-> m, target |-> raw_instruction_start(c)] :
    m \in RelocModes, c \in 0..count }

RelocLists(count, most) ==
  UNION { [1..len -> RelocRecords(count)] : len \in 0..most }

RelocBuiltin(relocs) ==
  [raw_instruction_size |-> Len(relocs) + 1, kind |-> "TFJ",
   isolate_independent |-> TRUE, descriptor |-> CleanDescriptor,
   relocs |-> relocs]

\* Builtin 0 has up to two records, builtin 1 up to one, the others none.
RelocInputs ==
  { [isolate |->
       [builtins |-> [n \in 1..NumBuiltins |->
                        RelocBuiltin(IF n = 1 THEN rs0
                                     ELSE IF n = 2 THEN rs1 ELSE <<>>)],
        arch |-> arch],
     config |-> [kCodeAlignment |-> 2, RawCodeOffset |-> 1]] :
    rs0 \in RelocLists(NumBuiltins, 2), rs1 \in RelocLists(NumBuiltins, 1),
    arch \in {"X64", "ARM", "PPC64"} }

Inputs == LayoutInputs \cup ScenarioInputs \cup GateInputs \cup RelocInputs

\* FromIsolate's locals on entry.
BuildLocals ==
  /\ i = 0
  /\ saw_unsafe_builtin = FALSE
  /\ reported = {}
  /\ metadata = [n \in 1..builtin_count |->
                   [instructions_offset |-> 0, instructions_length |-> 0]]
  /\ raw_code_size = 0
  /\ blob_code = <<>>
  /\ blob_metadata = <<>>
  /\ buffers = "none"

\* The process before any page is allocated.
NoPages ==
  /\ prot = [p \in Pages |-> "none"]
  /\ mem = [a \in Addresses |-> ZeroByte]
  /\ regions = {}
  /\ instances = {}
  /\ allocated_code_bytes = 0
  /\ allocated_metadata_bytes = 0
  /\ freeing = NoInstance
  /\ free_log = {}

\* FromIsolate called on its own, as the snapshot generator does.
Init ==
  /\ \E in \in Inputs : isolate = in.isolate /\ config = in.config
  /\ pc = "layout"
  /\ BuildLocals
  /\ lookup = [address |-> 0, result |-> NullCode]
  /\ NoPages

FromIsolate ==
  \/ BuildLayout
  \/ BuildCheckFail
  \/ BuildAllocate
  \/ BuildZap
  \/ BuildIsolateHash
  \/ BuildTable
  \/ BuildCopy
  \/ BuildFinalize
  \/ BuildHash

Next == FromIsolate \/ TryLookupCode

Spec == Init /\ [][Next]_vars

\* ====================================================== properties (Spec)
\* Layout as FromIsolate laid it out, read from its metadata vector.
Offset(n) == metadata[n + 1].instructions_offset
Length(n) == metadata[n + 1].instructions_length
Start(n) == code_ + RawCodeOffset + Offset(n)
\* The end of builtin n's range: the start of the next one, or the end of the
\* code region after the last.
RangeEnd(n) ==
  IF n + 1 < builtin_count THEN Start(n + 1) ELSE code_ + blob_code_size
Owns(n, address) == Start(n) <= address /\ address < RangeEnd(n)
InPadding(n, address) == Start(n) + Length(n) <= address /\ address < RangeEnd(n)
Builtins == 0..(builtin_count - 1)

\* C1: after a lookup on a built blob, the result is "not found" exactly for
\* the addresses outside [instruction start of builtin 0, end of the code
\* region), and otherwise it is the one builtin whose range, padding gap
\* included, holds the address; the search never reaches UNREACHABLE.
C1_ResolverTotal ==
  pc = "done" =>
    LET a == lookup.address
        r == lookup.result
    IN IF a < Start(0) \/ a >= code_ + blob_code_size
       THEN r = NullCode
       ELSE /\ r.kind = "builtin"
            /\ r.index \in Builtins
            /\ Owns(r.index, a)
            /\ \A n \in Builtins : Owns(n, a) => n = r.index

\* A lookup of an address in the padding gap of a builtin that is followed by
\* an empty builtin has returned the builtin before the gap.
C1_Witness ==
  /\ pc = "done"
  /\ lookup.result.kind = "builtin"
  /\ InPadding(lookup.result.index, lookup.address)
  /\ \E n \in Builtins : Length(n) = 0 /\ n > lookup.result.index

\* C2: the table of a built blob starts at offset 0, every offset is a
\* multiple of the alignment, consecutive ranges do not overlap, each offset
\* is the previous one advanced by the previous padded length, and the raw
\* code size is the last offset plus the last padded length.
C2_LayoutInvariant ==
  pc = "done" =>
    /\ Metadata(blob_metadata, 0)[1] = 0
    /\ \A n \in Builtins :
         /\ Metadata(blob_metadata, n)[2] = builtin(n).raw_instruction_size
         /\ Metadata(blob_metadata, n)[1] % kCodeAlignment = 0
         /\ n + 1 < builtin_count =>
              /\ Metadata(blob_metadata, n)[1] + Metadata(blob_metadata, n)[2]
                   <= Metadata(blob_metadata, n + 1)[1]
              /\ Metadata(blob_metadata, n + 1)[1]
                   = Metadata(blob_metadata, n)[1]
                     + PadAndAlign(Metadata(blob_metadata, n)[2])
    /\ raw_code_size
         = Metadata(blob_metadata, builtin_count - 1)[1]
           + PadAndAlign(Metadata(blob_metadata, builtin_count - 1)[2])
    /\ raw_code_size % kCodeAlignment = 0

\* A blob is built whose last builtin has trailing padding and whose first
\* builtin is followed by a padding gap.
C2_Witness ==
  /\ pc = "done"
  /\ builtin_count > 1
  /\ Offset(1) > Length(0)
  /\ raw_code_size > Offset(builtin_count - 1) + Length(builtin_count - 1)
  /\ Length(builtin_count - 1) > 0

\* Which builtins the claim calls unsafe: of any kind.
AliasesAnyKind(code) ==
  \/ code.descriptor.context = kOffHeapTrampolineRegister
  \/ \E p \in 1..Len(code.descriptor.params) :
       code.descriptor.params[p] = kOffHeapTrampolineRegister

\* Which builtins the code finds unsafe: the calling convention is only
\* looked at for the kinds CPP, TFC, TFH, TFJ and TFS.
AliasesCheckedKind(code) ==
  code.kind \in {"CPP", "TFC", "TFH", "TFJ", "TFS"} /\ AliasesAnyKind(code)

BlobReturned == pc = "done"
BuffersAllocated == pc \notin {"layout", "check", "fatal"}

\* C3 as claimed: a context-dependent builtin, or a builtin of any kind whose
\* descriptor uses the trampoline register, keeps build from allocating its
\* buffers and returning a blob.
C3_AsClaimed ==
  (\E n \in Builtins : \/ ~builtin(n).isolate_independent
                       \/ AliasesAnyKind(builtin(n)))
    => ~BuffersAllocated

\* C3 amended: a context-dependent builtin of any kind, or a builtin of kind
\* CPP, TFC, TFH, TFJ or TFS whose descriptor uses the trampoline register,
\* makes build abort before any buffer is allocated; when the loop is over,
\* every such builtin has been reported, with its reason.
C3_SafetyGate ==
  LET unsafe1(n) == ~builtin(n).isolate_independent
      unsafe2(n) == AliasesCheckedKind(builtin(n))
  IN /\ (\E n \in Builtins : unsafe1(n) \/ unsafe2(n)) => ~BuffersAllocated
     /\ pc \in {"check", "fatal"} =>
          /\ reported =
               {<<n, "is not isolate-independent">> : n \in {m \in Builtins : unsafe1(m)}}
               \cup {<<n, "aliases the off-heap trampoline register">> :
                       n \in {m \in Builtins : unsafe2(m)}}
          /\ saw_unsafe_builtin = (reported # {})
     /\ ~BuffersAllocated => blob_code = <<>> /\ blob_metadata = <<>>

\* Build has aborted with two builtins reported, one for each reason, the
\* aliasing one through a register parameter.
C3_Witness ==
  /\ pc = "fatal"
  /\ \E n, m \in Builtins :
       /\ n # m
       /\ <<n, "is not isolate-independent">> \in reported
       /\ <<m, "aliases the off-heap trampoline register">> \in reported
       /\ builtin(m).descriptor.context # kOffHeapTrampolineRegister

\* The worked example: lengths 10, 37 and 4 with alignment 16.
IsScenario ==
  /\ kCodeAlignment = 16
  /\ builtin_count = 3
  /\ builtin(0).raw_instruction_size = 10
  /\ builtin(1).raw_instruction_size = 37
  /\ builtin(2).raw_instruction_size = 4

\* C4 as claimed: the example gives offsets 0, 16 and 48 and a raw code size
\* of 64; offset 40 resolves to builtin 1, offset 48 to builtin 2.
C4_AsClaimed ==
  IsScenario /\ pc = "done" =>
    /\ Metadata(blob_metadata, 0) = <<0, 10>>
    /\ Metadata(blob_metadata, 1) = <<16, 37>>
    /\ Metadata(blob_metadata, 2) = <<48, 4>>
    /\ raw_code_size = 64
    /\ lookup.address = InstructionStartOfBuiltin(0) + 40
         => lookup.result = BuiltinCode(1)
    /\ lookup.address = InstructionStartOfBuiltin(0) + 48
         => lookup.result = BuiltinCode(2)

\* C4 amended: the example gives offsets 0, 16 and 64 and a raw code size of
\* 80 (builtin 1 ends at 16 + 37 = 53, past 48); offsets 40 and 48 lie inside
\* builtin 1's instructions and resolve to builtin 1, offset 56 lies in its
\* padding and resolves to builtin 1, offset 64 resolves to builtin 2.
C4_Scenario ==
  IsScenario /\ pc = "done" =>
    /\ Metadata(blob_metadata, 0) = <<0, 10>>
    /\ Metadata(blob_metadata, 1) = <<16, 37>>
    /\ Metadata(blob_metadata, 2) = <<64, 4>>
    /\ raw_code_size = 80
    /\ lookup.address - InstructionStartOfBuiltin(0) \in {40, 48, 56}
         => lookup.result = BuiltinCode(1)
    /\ lookup.address = InstructionStartOfBuiltin(0) + 64
         => lookup.result = BuiltinCode(2)

\* The lookup of offset 56, in builtin 1's padding, has run on the example.
C4_Witness ==
  /\ IsScenario
  /\ pc = "done"
  /\ lookup.address = InstructionStartOfBuiltin(0) + 56
  /\ lookup.result = BuiltinCode(1)

\* The metadata words after the hash field and the whole code region, read
\* off the buffers.
HashedMetadata == [k \in 1..(blob_metadata_size - 1) |-> blob_metadata[k]]
HashedCode == [k \in 1..blob_code_size |-> blob_code[k - 1]]

\* C7: in a returned blob the hash field holds the checksum of the metadata
\* region after the hash field and of the whole code region as they now are,
\* both fully written (isolate hash, table, no undefined byte); and once the
\* blob is returned no step writes either buffer.
C7_HashCoversFinalBuffers ==
  /\ [](pc = "done" =>
          /\ blob_metadata[EmbeddedBlobHashOffset]
               = HashWord(Checksum(HashedMetadata, HashedCode))
          /\ blob_metadata[IsolateHashOffset] = HashWord(HashIsolateForEmbeddedBlob)
          /\ \A n \in Builtins :
               blob_metadata[MetadataTableOffset + n] = EntryWord(metadata[n + 1])
          /\ \A k \in DOMAIN blob_code : blob_code[k].tag # "uninit")
  /\ [][pc = "done" =>
           (blob_code' = blob_code /\ blob_metadata' = blob_metadata)]_vars

\* A blob with a rewritten relocation target and a padding byte has been
\* returned, and a lookup has run on it.
C7_Witness ==
  /\ pc = "done"
  /\ \E k \in DOMAIN blob_code : blob_code[k].tag = "target"
  /\ \E k \in DOMAIN blob_code : blob_code[k] = ZapByte
  /\ lookup.result.kind = "builtin"

\* Builtin n's bytes are in the buffer: the loop that copies has passed it.
Copied(n) ==
  \/ pc \in {"finalize", "hash", "done", "fatal_code_target"}
  \/ pc = "copy" /\ n < i

\* C8: from the zap on, the code buffer has exactly blob_code_size bytes;
\* a byte inside the range of a copied builtin belongs to that builtin alone
\* and is its instruction byte, or a relocation target field at the place of
\* one; every other byte (header, padding gaps, trailing padding, builtins
\* not copied yet) is the trap byte.
C8_TrapFilledPadding ==
  pc \in {"copy", "finalize", "hash", "done", "fatal_code_target"} =>
    /\ DOMAIN blob_code = 0..(blob_code_size - 1)
    /\ \A n \in Builtins : RawCodeOffset + Offset(n) + Length(n) <= blob_code_size
    /\ \A k \in 0..(blob_code_size - 1) :
         LET owners == { n \in Builtins :
                           /\ RawCodeOffset + Offset(n) <= k
                           /\ k < RawCodeOffset + Offset(n) + Length(n) }
         IN /\ Cardinality(owners) <= 1
            /\ \A n \in owners :
                 LET at == k - RawCodeOffset - Offset(n)
                 IN IF ~Copied(n) THEN blob_code[k] = ZapByte
                    ELSE IF at < Len(builtin(n).relocs)
                    THEN blob_code[k].tag = "target"
                    ELSE blob_code[k] = InsnByte(n, at)
            /\ owners = {} => blob_code[k] = ZapByte

\* A blob is finished that has a header, a padding gap after builtin 0,
\* trailing padding and a relocation target field.
C8_Witness ==
  /\ pc = "done"
  /\ RawCodeOffset > 0
  /\ builtin_count > 1
  /\ Offset(1) > Length(0)
  /\ Length(0) > 0
  /\ raw_code_size > Offset(builtin_count - 1) + Length(builtin_count - 1)
  /\ \E k \in DOMAIN blob_code : blob_code[k].tag = "target"

\* The Code object a record's on-heap target belongs to.
TargetOwner(n, r) ==
  CHOOSE c \in 0..builtin_count :
    raw_instruction_start(c) = builtin(n).relocs[r].target

Records == { <<n, r>> \in Builtins \X (1..3) : r <= Len(builtin(n).relocs) }
FixedUp == pc \in {"hash", "done"}

\* C10: when the fix-up starts every builtin's bytes are in the blob; on the
\* architectures with direct calls, after it every record's field in the blob
\* decodes, at its place in the blob, to the blob's instruction start of the
\* builtin that owns the on-heap target, and the build does not get past the
\* fix-up when a target is not a builtin; on the other architectures it does
\* not get past it when any builtin has a record.
C10_RelocationFixup ==
  /\ pc = "finalize" /\ i = 0 =>
       \A n \in Builtins : \A k \in 0..(Length(n) - 1) :
         blob_code[RawCodeOffset + Offset(n) + k] = OnHeapByte(n, k)
  /\ FixedUp /\ isolate.arch \in DirectCallArchs =>
       \A rec \in Records :
         LET n == rec[1]
             r == rec[2]
             field_pc == Start(n) + r - 1
             field == blob_code[field_pc - code_]
         IN /\ TargetOwner(n, r) \in Builtins
            /\ field.tag = "target"
            /\ DecodeTarget(builtin(n).relocs[r].rmode, field.a, field_pc)
                 = Start(TargetOwner(n, r))
  /\ FixedUp /\ isolate.arch \notin DirectCallArchs => Records = {}

\* On a direct-call architecture a blob is fixed up in which builtin 0 has two
\* records, one of them pc-relative to another builtin.
C10_Witness ==
  /\ pc = "done"
  /\ isolate.arch \in DirectCallArchs
  /\ Len(builtin(0).relocs) = 2
  /\ \E r \in 1..2 : /\ builtin(0).relocs[r].rmode = "RELATIVE_CODE_TARGET"
                     /\ TargetOwner(0, r) # 0

\* The fix-up has aborted the build: a target that is no builtin, or a record
\* on an architecture without direct calls.
C10_AbortReached ==
  pc = "fatal_code_target"

\* ================================================== a second fix-up run
\* FinalizeEmbeddedCodeTargets as a whole: the loop over the builtins from n.
RECURSIVE FinalizeEmbeddedCodeTargets(_, _)
FinalizeEmbeddedCodeTargets(buf, n) ==
  IF n = builtin_count
  THEN [buf |-> buf, ok |-> TRUE]
  ELSE LET res == FinalizeBuiltin(buf, n)
       IN IF res.ok THEN FinalizeEmbeddedCodeTargets(res.buf, n + 1) ELSE res

\* The fix-up applied once more to a finished blob.
Refinalize ==
  /\ pc \in {"done", "refinalized"}
  /\ LET res == FinalizeEmbeddedCodeTargets(blob_code, 0)
     IN /\ blob_code' = res.buf
        /\ pc' = IF res.ok THEN "refinalized" ELSE "fatal_code_target"
  /\ UNCHANGED <<lifeVars, buffers, isolate, config, lookup, i, saw_unsafe_builtin, reported,
                 metadata, raw_code_size, blob_metadata>>

NextRefinalize == FromIsolate \/ Refinalize

SpecRefinalize == Init /\ [][NextRefinalize]_vars

\* C9: a fix-up run on an already fixed blob completes and leaves both
\* regions as the first run left them.
C9_FixupIdempotent ==
  [][(pc \in {"done", "refinalized"}) =>
       (pc' = "refinalized" /\ blob_code' = blob_code
                            /\ blob_metadata' = blob_metadata)]_vars

\* On a direct-call architecture the fix-up has run again on a blob with an
\* absolute and a pc-relative record.
C9_Witness ==
  /\ pc = "refinalized"
  /\ isolate.arch \in DirectCallArchs
  /\ \E rec \in Records : builtin(rec[1]).relocs[rec[2]].rmode = "CODE_TARGET"
  /\ \E rec \in Records :
       builtin(rec[1]).relocs[rec[2]].rmode = "RELATIVE_CODE_TARGET"

\* ======================================= the off-heap instruction stream
\* ------------------------------------------------------ the page allocator
\* AllocatePages(address, size, alignment, access): the pages become mapped,
\* zero-filled, with the protection asked for.
AllocatePages(address, size, access) ==
  /\ prot' = [p \in Pages |->
                IF p \in PagesOf(address, size) THEN access ELSE prot[p]]
  /\ mem' = [a \in Addresses |->
               IF a >= address /\ a < address + size THEN ZeroByte ELSE mem[a]]
  /\ regions' = regions \cup {[address |-> address, size |-> size]}

\* The page-aligned addresses at which size bytes of unmapped pages start.
\* The hint (AlignedAddress(GetRandomMmapAddr(), alignment)) binds nothing:
\* the allocator may return any of them.
FreeRanges(size) ==
  { p * AllocatePageSize : p \in
      { q \in Pages : \A k \in 0..((size \div AllocatePageSize) - 1) :
                        q + k \in Pages /\ prot[q + k] = "none" } }

\* SetPermissions(address, size, access) that succeeds.
SetPermissions(address, size, access) ==
  prot' = [p \in Pages |->
             IF p \in PagesOf(address, size) THEN access ELSE prot[p]]

\* FreePages(address, size) that succeeds: the pages of the range are
\* unmapped and the allocation at the address is gone.
FreePages(address, size) ==
  /\ prot' = [p \in Pages |->
                IF p \in PagesOf(address, size) THEN "none" ELSE prot[p]]
  /\ mem' = [a \in Addresses |->
               IF a >= address /\ a < address + size THEN ZeroByte ELSE mem[a]]
  /\ regions' = { r \in regions : r.address # address }
  /\ free_log' = free_log \cup
       { [released |-> size, allocated |-> r.size] :
           r \in { q \in regions : q.address = address } }

\* std::memcpy(dst, src, size) into pages that can be written.
Writable(dst, size) == \A p \in PagesOf(dst, size) : prot[p] = "kReadWrite"

Memcpy(dst, src, size) ==
  [a \in Addresses |-> IF a >= dst /\ a < dst + size THEN src[a - dst] ELSE mem[a]]

\* ------------------------------------------ CreateOffHeapInstructionStream
\* Fault model: the size handed to FreePages is not rounded up.
UnroundedSize(size) == size

\* RoundUp(code_size, page_size) and RoundUp(metadata_size, page_size) of
\* FreeOffHeapInstructionStream.
FreeSize(size) == RoundUp(size, AllocatePageSize)

\* RoundUp(d.code_size(), alignment) and RoundUp(d.metadata_size(), alignment)
\* of CreateOffHeapInstructionStream.
PageRounded(size) == RoundUp(size, AllocatePageSize)

allocation_code_size == PageRounded(blob_code_size)
allocation_metadata_size == PageRounded(blob_metadata_size)

\* Fault model: the second SetPermissions is given the code pointer again.
ProtectedTwice == allocated_code_bytes

\* The region the second SetPermissions call protects.
ProtectedMetadata == allocated_metadata_bytes

\* EmbeddedData d = EmbeddedData::FromIsolate(isolate): the call starts.
CreateStart ==
  /\ pc = "idle"
  /\ pc' = "layout"
  /\ i' = 0
  /\ saw_unsafe_builtin' = FALSE
  /\ reported' = {}
  /\ metadata' = [n \in 1..builtin_count |->
                    [instructions_offset |-> 0, instructions_length |-> 0]]
  /\ raw_code_size' = 0
  /\ blob_code' = <<>>
  /\ blob_metadata' = <<>>
  /\ buffers' = "none"
  /\ allocated_code_bytes' = 0
  /\ allocated_metadata_bytes' = 0
  /\ UNCHANGED <<isolate, config, lookup, prot, mem, regions, instances,
                 freeing, free_log>>

CreateAllocCode ==
  /\ pc = "done"
  /\ \E address \in FreeRanges(allocation_code_size) :
       /\ AllocatePages(address, allocation_code_size, "kReadWrite")
       /\ allocated_code_bytes' = address
  /\ pc' = "alloc_metadata"
  /\ UNCHANGED <<isolate, config, lookup, buildVars, instances,
                 allocated_metadata_bytes, freeing, free_log>>

CreateAllocMetadata ==
  /\ pc = "alloc_metadata"
  /\ \E address \in FreeRanges(allocation_metadata_size) :
       /\ AllocatePages(address, allocation_metadata_size, "kReadWrite")
       /\ allocated_metadata_bytes' = address
  /\ pc' = "copy_code"
  /\ UNCHANGED <<isolate, config, lookup, buildVars, instances,
                 allocated_code_bytes, freeing, free_log>>

\* std::memcpy(allocated_code_bytes, d.code(), d.code_size()); a write to a
\* page that is not writable faults.
CreateCopyCode ==
  /\ pc = "copy_code"
  /\ IF Writable(allocated_code_bytes, blob_code_size) /\ buffers = "live"
     THEN /\ mem' = Memcpy(allocated_code_bytes, blob_code, blob_code_size)
          /\ pc' = "protect_code"
     ELSE /\ mem' = mem
          /\ pc' = "segv"
  /\ UNCHANGED <<isolate, config, lookup, buildVars, prot, regions, instances,
                 allocated_code_bytes, allocated_metadata_bytes, freeing,
                 free_log>>

CreateProtectCode ==
  /\ pc = "protect_code"
  /\ SetPermissions(allocated_code_bytes, allocation_code_size, "kReadExecute")
  /\ pc' = "copy_metadata"
  /\ UNCHANGED <<isolate, config, lookup, buildVars, mem, regions, instances,
                 allocated_code_bytes, allocated_metadata_bytes, freeing,
                 free_log>>

CreateCopyMetadata ==
  /\ pc = "copy_metadata"
  /\ IF Writable(allocated_metadata_bytes, blob_metadata_size) /\ buffers = "live"
     THEN /\ mem' = Memcpy(allocated_metadata_bytes, blob_metadata,
                           blob_metadata_size)
          /\ pc' = "protect_metadata"
     ELSE /\ mem' = mem
          /\ pc' = "segv"
  /\ UNCHANGED <<isolate, config, lookup, buildVars, prot, regions, instances,
                 allocated_code_bytes, allocated_metadata_bytes, freeing,
                 free_log>>

CreateProtectMetadata ==
  /\ pc = "protect_metadata"
  /\ SetPermissions(ProtectedMetadata, allocation_metadata_size, "kRead")
  /\ pc' = "return"
  /\ UNCHANGED <<isolate, config, lookup, buildVars, mem, regions, instances,
                 allocated_code_bytes, allocated_metadata_bytes, freeing,
                 free_log>>

\* The out-parameters are set and d.Dispose() releases the build buffers.
CreateReturn ==
  /\ pc = "return"
  /\ instances' = instances \cup
       { [code |-> allocated_code_bytes, code_size |-> blob_code_size,
          metadata |-> allocated_metadata_bytes,
          metadata_size |-> blob_metadata_size] }
  /\ buffers' = "disposed"
  /\ pc' = "idle"
  /\ UNCHANGED <<isolate, config, lookup, i, saw_unsafe_builtin, reported,
                 metadata, raw_code_size, blob_code, blob_metadata, prot, mem,
                 regions, allocated_code_bytes, allocated_metadata_bytes,
                 freeing, free_log>>

\* -------------------------------------------- FreeOffHeapInstructionStream
\* The call starts, with the pointers and sizes of one earlier Create.
FreeStart ==
  /\ pc = "idle"
  /\ \E inst \in instances :
       /\ freeing' = inst
       /\ instances' = instances \ {inst}
  /\ pc' = "free_code"
  /\ UNCHANGED <<isolate, config, lookup, buildVars, prot, mem, regions,
                 allocated_code_bytes, allocated_metadata_bytes, free_log>>

FreeCode ==
  /\ pc = "free_code"
  /\ FreePages(freeing.code, FreeSize(freeing.code_size))
  /\ pc' = "free_metadata"
  /\ UNCHANGED <<isolate, config, lookup, buildVars, instances,
                 allocated_code_bytes, allocated_metadata_bytes, freeing>>

FreeMetadata ==
  /\ pc = "free_metadata"
  /\ FreePages(freeing.metadata, FreeSize(freeing.metadata_size))
  /\ freeing' = NoInstance
  /\ pc' = "idle"
  /\ UNCHANGED <<isolate, config, lookup, buildVars, instances,
                 allocated_code_bytes, allocated_metadata_bytes>>

\* AllocatePages returns null, or SetPermissions or FreePages returns false:
\* the CHECK around the call aborts the process.
PageAllocatorFails ==
  /\ pc \in {"done", "alloc_metadata", "protect_code", "protect_metadata",
             "free_code", "free_metadata"}
  /\ pc' = "fatal_page_allocator"
  /\ UNCHANGED <<isolate, config, lookup, buildVars, lifeVars>>

\* The isolates the lifecycle is run with: a plain one, one with relocation
\* records and one that the safety gate rejects.
LifeInputs ==
  { [isolate |-> [builtins |-> <<PlainBuiltin(1), PlainBuiltin(2)>>,
                  arch |-> "X64"],
     config |-> [kCodeAlignment |-> 2, RawCodeOffset |-> 1]],
    [isolate |-> [builtins |->
                    <<RelocBuiltin(<<[rmode |-> "RELATIVE_CODE_TARGET",
                                      target |-> raw_instruction_start(1)]>>),
                      RelocBuiltin(<<>>)>>,
                  arch |-> "ARM64"],
     config |-> [kCodeAlignment |-> 2, RawCodeOffset |-> 1]],
    [isolate |-> [builtins |->
                    <<PlainBuiltin(1),
                      [PlainBuiltin(1) EXCEPT !.isolate_independent = FALSE]>>,
                  arch |-> "X64"],
     config |-> [kCodeAlignment |-> 2, RawCodeOffset |-> 0]] }

InitLifecycle ==
  /\ \E in \in LifeInputs : isolate = in.isolate /\ config = in.config
  /\ pc = "idle"
  /\ BuildLocals
  /\ lookup = [address |-> 0, result |-> NullCode]
  /\ NoPages

CreateOffHeapInstructionStream ==
  \/ CreateStart
  \/ FromIsolate
  \/ CreateAllocCode
  \/ CreateAllocMetadata
  \/ CreateCopyCode
  \/ CreateProtectCode
  \/ CreateCopyMetadata
  \/ CreateProtectMetadata
  \/ CreateReturn

FreeOffHeapInstructionStream ==
  \/ FreeStart
  \/ FreeCode
  \/ FreeMetadata

NextLifecycle ==
  \/ CreateOffHeapInstructionStream
  \/ FreeOffHeapInstructionStream
  \/ PageAllocatorFails

SpecLifecycle == InitLifecycle /\ [][NextLifecycle]_vars

\* ================================================ properties (lifecycle)
\* The two regions of an instance as its owner knows them: the pointers
\* returned, with the returned sizes rounded up to the page size.
CodeRegion(inst) ==
  PagesOf(inst.code, RoundUp(inst.code_size, AllocatePageSize))
MetadataRegion(inst) ==
  PagesOf(inst.metadata, RoundUp(inst.metadata_size, AllocatePageSize))
LivePages == { p \in Pages : prot[p] # "none" }

\* C5: every FreePages so far released exactly the size that was allocated at
\* its address; between calls the mapped pages are exactly the pages of the
\* regions of the instances not yet disposed, and no two of those regions
\* (of one instance or of two) share a page.
C5_LifecycleSymmetry ==
  /\ \A e \in free_log : e.released = e.allocated
  /\ pc = "idle" =>
       /\ LivePages = UNION { CodeRegion(inst) \cup MetadataRegion(inst) :
                                inst \in instances }
       /\ \A inst \in instances :
            /\ CodeRegion(inst) # {}
            /\ MetadataRegion(inst) # {}
            /\ CodeRegion(inst) \cap MetadataRegion(inst) = {}
            /\ [address |-> inst.code,
                size |-> RoundUp(inst.code_size, AllocatePageSize)] \in regions
            /\ [address |-> inst.metadata,
                size |-> RoundUp(inst.metadata_size, AllocatePageSize)]
                 \in regions
       /\ \A a, b \in instances :
            a # b => (CodeRegion(a) \cup MetadataRegion(a))
                       \cap (CodeRegion(b) \cup MetadataRegion(b)) = {}

\* Two instances of the same blob are live after another has been disposed.
C5_Witness ==
  /\ pc = "idle"
  /\ Cardinality(instances) = 2
  /\ free_log # {}

\* C6: no copy faults; while the copies and protections run the build
\* buffers are live; whenever Create has returned, every instance has both
\* regions mapped, the code region read+execute and holding the blob's code
\* bytes, the metadata region read-only and holding the blob's metadata, and
\* no page is left writable.
C6_AllOrAbort ==
  /\ pc # "segv"
  /\ pc \in {"alloc_metadata", "copy_code", "protect_code", "copy_metadata",
             "protect_metadata", "return"} => buffers = "live"
  /\ pc = "idle" =>
       /\ \A p \in Pages : prot[p] # "kReadWrite"
       /\ \A inst \in instances :
            /\ inst.code_size = blob_code_size
            /\ inst.metadata_size = blob_metadata_size
            /\ CodeRegion(inst) # {}
            /\ MetadataRegion(inst) # {}
            /\ \A p \in CodeRegion(inst) : prot[p] = "kReadExecute"
            /\ \A p \in MetadataRegion(inst) : prot[p] = "kRead"
            /\ \A k \in 0..(inst.code_size - 1) :
                 mem[inst.code + k] = blob_code[k]
            /\ \A k \in 0..(inst.metadata_size - 1) :
                 mem[inst.metadata + k] = blob_metadata[k]

\* Create has returned an instance whose code holds a relocation target, and
\* the build buffers are gone.
C6_Witness ==
  /\ pc = "idle"
  /\ buffers = "disposed"
  /\ \E inst \in instances :
       \E k \in 0..(inst.code_size - 1) : mem[inst.code + k].tag = "target"

\* The process has aborted on a page-allocator failure with one region of
\* the instance being created already mapped.
C6_AbortReached ==
  /\ pc = "fatal_page_allocator"
  /\ allocated_code_bytes # 0
  /\ allocated_metadata_bytes = 0

====
